---- MODULE Spec2Model ----
(***************************************************************************)
(* Warranty intake Worker (src/warranty-form-handler.js).                  *)
(*                                                                         *)
(* Two components are modelled:                                            *)
(*   - ClaimCounter, the Durable Object whose fetch() reads "n" from its   *)
(*     storage, increments it, writes it back and returns it;              *)
(*   - the default export's fetch(), which routes on the method, parses    *)
(*     and validates the body, asks ClaimCounter for a claim number and    *)
(*     then calls HubSpot (contact upsert, ticket) and Brevo (email).      *)
(*                                                                         *)
(* Every action is the code that runs between two awaits of one request:   *)
(* it starts when an awaited promise settles and ends when the next        *)
(* outbound call has been issued (or the handler has returned or thrown).  *)
(* Text is a sequence of one-character strings.                            *)
(*                                                                         *)
(* Spec is the Worker with ClaimCounter behind it; SpecCounter is          *)
(* ClaimCounter alone, driven by callers that only call POST /next.        *)
(***************************************************************************)
EXTENDS Integers, Sequences, FiniteSets, TLC

\* ------------------------------------------------------------------ bounds
NumReqs == 2            \* concurrent inbound requests to the Worker
NumCallers == 3         \* concurrent callers of ClaimCounter when it is checked alone
MaxRestarts == 1        \* restarts of the Durable Object process
MaxPutFailures == 1     \* rejected storage.put() calls
MaxCallFailures == 3    \* failed HubSpot and Brevo calls

Reqs == 1..NumReqs
Callers == 1..NumCallers

\* --------------------------------------------------------------- constants
Seed == 100000          \* `|| 100000`, the value used when "n" is unset
Undefined == -1         \* storage.get() of a key that was never written
Null == 0               \* JavaScript null for contactId / ticketId

\* ------------------------------------------------------------------- text
LowerLetters ==
  <<"a","b","c","d","e","f","g","h","i","j","k","l","m",
    "n","o","p","q","r","s","t","u","v","w","x","y","z">>
UpperLetters ==
  <<"A","B","C","D","E","F","G","H","I","J","K","L","M",
    "N","O","P","Q","R","S","T","U","V","W","X","Y","Z">>
Digits == {"0","1","2","3","4","5","6","7","8","9"}
Whitespace == {" ", "\t", "\n", "\r"}

\* the upper-case and the lower-case form of each letter
UpperMap == [c \in {LowerLetters[i] : i \in 1..26} |->
               UpperLetters[CHOOSE i \in 1..26 : LowerLetters[i] = c]]
LowerMap == [c \in {UpperLetters[i] : i \in 1..26} |->
               LowerLetters[CHOOSE i \in 1..26 : UpperLetters[i] = c]]

\* String.prototype.toUpperCase / toLowerCase, character by character
UpperChar(c) == IF c \in DOMAIN UpperMap THEN UpperMap[c] ELSE c
LowerChar(c) == IF c \in DOMAIN LowerMap THEN LowerMap[c] ELSE c
toUpperCase(s) == [i \in 1..Len(s) |-> UpperChar(s[i])]
toLowerCase(s) == [i \in 1..Len(s) |-> LowerChar(s[i])]

\* String.prototype.trim: drop leading and trailing whitespace
RECURSIVE TrimLeft(_)
TrimLeft(s) == IF s # <<>> /\ Head(s) \in Whitespace THEN TrimLeft(Tail(s)) ELSE s
RECURSIVE TrimRight(_)
TrimRight(s) ==
  IF s # <<>> /\ s[Len(s)] \in Whitespace THEN TrimRight(SubSeq(s, 1, Len(s) - 1)) ELSE s
trim(s) == TrimRight(TrimLeft(s))

\* /^[A-HJ-NPR-Z0-9]{17}$/
VinChars == Digits \cup ({UpperLetters[i] : i \in 1..26} \ {"I", "O", "Q"})
VinLength == 17
VinPattern(s) == Len(s) = VinLength /\ \A i \in 1..Len(s) : s[i] \in VinChars

\* /^[^\s@]+@[^\s@]+\.[^\s@]+$/ : no whitespace, one "@" that is not first,
\* and a "." after it that is neither next to the "@" nor last.
EmailPattern(s) ==
  /\ \A i \in 1..Len(s) : s[i] \notin Whitespace
  /\ Cardinality({i \in 1..Len(s) : s[i] = "@"}) = 1
  /\ \E a \in 2..Len(s) :
       /\ s[a] = "@"
       /\ \E d \in (a + 2)..(Len(s) - 1) : s[d] = "."

VinMessage == "VIN must be 17 chars (no I, O, Q)."
EmailMessage == "Email is invalid."
BodyMessage == "Invalid request body"

\* Variant: the email is looked at only when the VIN passed.
ValidationErrorsFirstOnly(vin, email) ==
  IF ~VinPattern(vin) THEN <<VinMessage>>
  ELSE IF ~EmailPattern(email) THEN <<EmailMessage>> ELSE <<>>

\* step 4 of fetch(): the list of validation errors
ValidationErrors(vin, email) ==
  (IF VinPattern(vin) THEN <<>> ELSE <<VinMessage>>)
    \o (IF EmailPattern(email) THEN <<>> ELSE <<EmailMessage>>)

\* ----------------------------------------------------------------- inputs
GoodVin      == <<"1","H","G","C","M","8","2","6","3","3","A","1","2","3","4","5","6">>
PaddedVin    == <<" ","1","h","g","c","m","8","2","6","3","3","a","1","2","3","4","5","6"," ">>
VinWithI     == <<"1","H","G","C","M","8","2","6","3","3","A","1","2","3","4","5","I">>
ShortVin     == <<"1","H","G","C","M","8","2","6","3","3","A","1","2","3","4","5">>
EmailAB      == <<"a","@","b",".","c","o">>
EmailABMixed == <<"A","@","b",".","c","o"," ">>
NotAnEmail   == <<"n","o","t","-","a","n","-","e","m","a","i","l">>
SpacedEmail  == <<"a"," ","b","@","c",".","d">>
Absent       == <<>>

\* What a client can send: method, content type, whether the body can be
\* read as that type ("object"), cannot be read at all ("unparseable") or is
\* the JSON literal null, and the three fields.
Req(m, ct, b, v, e, c) ==
  [method |-> m, ctype |-> ct, body |-> b, vin |-> v, email |-> e, category |-> c]

RequestSamples ==
  { Req("OPTIONS", "json", "object", Absent, Absent, ""),
    Req("GET", "json", "object", GoodVin, EmailAB, ""),
    Req("POST", "json", "object", PaddedVin, EmailABMixed, "Parts"),
    Req("POST", "json", "object", VinWithI, EmailAB, ""),
    Req("POST", "form", "object", GoodVin, NotAnEmail, ""),
    Req("POST", "json", "object", ShortVin, SpacedEmail, ""),
    Req("POST", "json", "object", Absent, Absent, ""),
    Req("POST", "json", "unparseable", GoodVin, EmailAB, ""),
    Req("POST", "json", "null", Absent, Absent, ""),
    Req("POST", "form", "unparseable", GoodVin, EmailAB, "") }

NoRequest == Req("", "", "", Absent, Absent, "")

\* Worker variables and secrets (env): the HubSpot token and the four
\* settings step 8 looks at.
Env(tok, en, ep, key, from) ==
  [HUBSPOT_TOKEN |-> tok, EMAIL_ENABLED |-> en, EMAIL_API_ENDPOINT |-> ep,
   EMAIL_API_KEY |-> key, FROM_EMAIL |-> from]

EnvConfigs ==
  { Env(TRUE, "true", TRUE, TRUE, TRUE),
    Env(TRUE, "true", FALSE, TRUE, TRUE),
    Env(FALSE, "true", TRUE, FALSE, TRUE),
    Env(FALSE, "false", TRUE, TRUE, TRUE) }


\* ---------------------------------------------------- step 3: body parsing
\* request.json() rejects on text that is not JSON and the .catch() turns
\* that into {}; the JSON literal null makes `b.vin` throw; formData()
\* rejects on a body it cannot read.  A throw lands in the catch of step 3.
ParseThrows(q) ==
  \/ q.ctype = "json" /\ q.body = "null"
  \/ q.ctype = "form" /\ q.body # "object"

Warranty == <<"W","a","r","r","a","n","t","y">>
Parts == <<"P","a","r","t","s"," ">>
CategoryText(c) == IF c = "Parts" THEN Parts ELSE <<>>

\* the fields `b.vin || ""`, `b.email || ""`, `b.category` of the parsed body
Fields(q) ==
  IF q.ctype = "json" /\ q.body = "unparseable"
    THEN [vin |-> Absent, email |-> Absent, category |-> <<>>]
    ELSE [vin |-> q.vin, email |-> q.email, category |-> CategoryText(q.category)]

\* the locals vin, email, category after step 3
Parsed(q) ==
  [vin |-> toUpperCase(trim(Fields(q).vin)),
   email |-> trim(Fields(q).email),
   category |-> IF Fields(q).category # <<>> THEN trim(Fields(q).category) ELSE Warranty]

\* HubSpot already holds a contact of somebody else.
OtherContact == <<"z","@","y",".","c","o">>

NoLocals == [vin |-> Absent, email |-> Absent, category |-> Absent]

\* the normalized submission built after validation
Submission(loc) ==
  [vin |-> toUpperCase(loc.vin), email |-> toLowerCase(loc.email), category |-> loc.category]

\* --------------------------------------------------------------- responses
\* kind: "none" (no response yet), "empty" (204, null body), "text" (plain
\* text body), "json" (a body built by json()).
Response(st, k, okv, errs, cn, cid, tid, es) ==
  [status |-> st, kind |-> k, ok |-> okv, errors |-> errs, claimNumber |-> cn,
   contactId |-> cid, ticketId |-> tid, emailStatus |-> es]

NoResponse == Response(0, "none", FALSE, <<>>, Null, Null, Null, "")
handlePreflight == Response(204, "empty", FALSE, <<>>, Null, Null, Null, "")
MethodNotAllowed == Response(405, "text", FALSE, <<>>, Null, Null, Null, "")
\* json(request, { ok: false, errors }, 400)
jsonErrors(errs) == Response(400, "json", FALSE, errs, Null, Null, Null, "")
\* json(request, { ok: true, claimNumber, ref, contactId, ticketId, emailStatus, message })
jsonOk(cn, cid, tid, es) == Response(200, "json", TRUE, <<>>, cn, cid, tid, es)

\* -------------------------------------------------------------- variables
VARIABLES
  env,          \* the Worker's variables and secrets
  stored,       \* ClaimCounter storage: the value under key "n"
  pc,           \* where each request is suspended
  request,      \* what each request carried
  locals,       \* vin, email, category of each request after parsing
  n,            \* the local `n` of each ClaimCounter.fetch() invocation
  claimNumber,  \* the local claimNumber of each request
  contactId,    \* the local contactId
  ticketId,     \* the local ticketId
  emailStatus,  \* the local emailStatus
  response,     \* the Response each request returned
  calls,        \* outbound calls issued by each request, per collaborator
  ticketClaim,  \* the claim number written in the ticket props of each request
  emailClaim,   \* the claim number written in the email of each request
  crm,          \* HubSpot contacts: the email of each record, id = position
  issued,       \* the values ClaimCounter has returned, in order
  seenAtCall,   \* how many values had been returned when a request called /next
  restarts,     \* restarts of the ClaimCounter process so far
  putFailures,  \* rejected storage.put() calls so far
  callFailures, \* failed HubSpot and Brevo calls so far
  got,          \* what get("n") gave each ClaimCounter.fetch() invocation
  afterFail,    \* the latest rejected put(): the n it carried, the value the
                \* next return gave, and whether a restart has since dropped
                \* an invocation that had written
  failedSteps,  \* the steps 6, 7, 8 of each request that ended in their catch
  allocCalls    \* POST /next calls each request has sent to ClaimCounter

vars ==
  <<env, stored, pc, request, locals, n, claimNumber, contactId, ticketId,
    emailStatus, response, calls, ticketClaim, emailClaim, crm, issued,
    seenAtCall, restarts, putFailures, callFailures, got, afterFail, failedSteps,
    allocCalls>>

counterVars ==
  <<stored, n, issued, seenAtCall, restarts, putFailures, got, afterFail, allocCalls>>
downstreamVars ==
  <<contactId, ticketId, emailStatus, calls, ticketClaim, emailClaim, crm,
    callFailures, failedSteps>>

NoCalls == [upsert |-> 0, find |-> 0, create |-> 0, ticket |-> 0, email |-> 0]

NoFailure == [failed |-> 0, next |-> 0, lost |-> FALSE]

\* The state after deployment: no request yet, nothing stored under "n".
InitOver(R, E) ==
  /\ env \in E
  /\ stored = Undefined
  /\ pc = [r \in R |-> "new"]
  /\ request = [r \in R |-> NoRequest]
  /\ locals = [r \in R |-> NoLocals]
  /\ n = [r \in R |-> 0]
  /\ got = [r \in R |-> 0]
  /\ claimNumber = [r \in R |-> Null]
  /\ contactId = [r \in R |-> Null]
  /\ ticketId = [r \in R |-> Null]
  /\ emailStatus = [r \in R |-> ""]
  /\ response = [r \in R |-> NoResponse]
  /\ calls = [r \in R |-> NoCalls]
  /\ failedSteps = [r \in R |-> {}]
  /\ ticketClaim = [r \in R |-> Null]
  /\ emailClaim = [r \in R |-> Null]
  /\ crm = <<OtherContact>>
  /\ issued = <<>>
  /\ seenAtCall = [r \in R |-> 0]
  /\ restarts = 0
  /\ putFailures = 0
  /\ callFailures = 0
  /\ afterFail = NoFailure
  /\ allocCalls = [r \in R |-> 0]

Init == InitOver(Reqs, EnvConfigs)

\* ------------------------------------------- fetch(): steps 1 to 5 (routing)
\* Return a response and end the request.
Reply(r, q, resp) ==
  /\ pc' = [pc EXCEPT ![r] = "responded"]
  /\ request' = [request EXCEPT ![r] = q]
  /\ response' = [response EXCEPT ![r] = resp]

\* 1) OPTIONS is answered by handlePreflight()
Preflight(r, q) ==
  /\ pc[r] = "new"
  /\ q.method = "OPTIONS"
  /\ Reply(r, q, handlePreflight)
  /\ UNCHANGED <<env, locals, claimNumber, counterVars, downstreamVars>>

\* 2) any other method than POST gets 405
NotPost(r, q) ==
  /\ pc[r] = "new"
  /\ q.method # "OPTIONS"
  /\ q.method # "POST"
  /\ Reply(r, q, MethodNotAllowed)
  /\ UNCHANGED <<env, locals, claimNumber, counterVars, downstreamVars>>

\* 3) a body that cannot be read gets 400 "Invalid request body"
BadBody(r, q) ==
  /\ pc[r] = "new"
  /\ q.method = "POST"
  /\ ParseThrows(q)
  /\ Reply(r, q, jsonErrors(<<BodyMessage>>))
  /\ UNCHANGED <<env, locals, claimNumber, counterVars, downstreamVars>>

\* 4) a VIN or an email that fails its pattern gets 400 with the messages
Invalid(r, q) ==
  /\ pc[r] = "new"
  /\ q.method = "POST"
  /\ ~ParseThrows(q)
  /\ Len(ValidationErrors(Parsed(q).vin, Parsed(q).email)) # 0
  /\ Reply(r, q, jsonErrors(ValidationErrors(Parsed(q).vin, Parsed(q).email)))
  /\ locals' = [locals EXCEPT ![r] = Parsed(q)]
  /\ UNCHANGED <<env, claimNumber, counterVars, downstreamVars>>

\* Variant: the `if (errors.length) return` of step 4 is missing.
AcceptUnvalidated(r, q) ==
  /\ pc[r] = "new"
  /\ q.method = "POST"
  /\ ~ParseThrows(q)
  /\ pc' = [pc EXCEPT ![r] = "doQueued"]
  /\ request' = [request EXCEPT ![r] = q]
  /\ locals' = [locals EXCEPT ![r] = Parsed(q)]
  /\ seenAtCall' = [seenAtCall EXCEPT ![r] = Len(issued)]
  /\ allocCalls' = [allocCalls EXCEPT ![r] = @ + 1]
  /\ UNCHANGED <<env, response, claimNumber, stored, n, issued, restarts,
                 putFailures, got, afterFail, downstreamVars>>

\* 5) a valid submission calls POST /next on the "global" ClaimCounter
Accept(r, q) ==
  /\ pc[r] = "new"
  /\ q.method = "POST"
  /\ ~ParseThrows(q)
  /\ Len(ValidationErrors(Parsed(q).vin, Parsed(q).email)) = 0
  /\ pc' = [pc EXCEPT ![r] = "doQueued"]
  /\ request' = [request EXCEPT ![r] = q]
  /\ locals' = [locals EXCEPT ![r] = Parsed(q)]
  /\ seenAtCall' = [seenAtCall EXCEPT ![r] = Len(issued)]
  /\ allocCalls' = [allocCalls EXCEPT ![r] = @ + 1]
  /\ UNCHANGED <<env, response, claimNumber, stored, n, issued, restarts,
                 putFailures, got, afterFail, downstreamVars>>

\* ------------------------------------------------------------ ClaimCounter
\* The only route of ClaimCounter.fetch(); the Worker always sends this one.
CounterRoute(method, pathname) == method = "POST" /\ pathname = "/next"

\* Variant: the stored value is never used (the key read is not the key written).
OrSeedIgnoringStored(v) == Seed

\* Variant: the seed is taken as the first number, not as the one before it.
OrSeedAsFirst(v) == IF v = Undefined \/ v = 0 THEN Seed + 1 ELSE v

\* `(await this.state.storage.get("n")) || 100000`
OrSeed(v) == IF v = Undefined \/ v = 0 THEN Seed ELSE v

\* Variant: requests are delivered while a storage operation is pending.
NoInputGate == TRUE

\* Variant: the object takes no new request until the caller of the one it
\* served has got through its HubSpot and Brevo calls.
GateHeldUntilAnswered ==
  \A r \in DOMAIN pc :
    pc[r] \notin {"doGet", "doPut", "doWritten", "doReturned", "hsFind", "hsCreate",
                  "ticket", "email"}

\* A Durable Object delivers no new request to the object while one of its
\* storage operations is in progress (the get and the put are awaited on
\* this.state.storage), and the code between put() settling and the return
\* has no await: "Storage is strongly consistent; increments are atomic."
InputGateOpen == \A r \in DOMAIN pc : pc[r] \notin {"doGet", "doPut", "doWritten"}

\* the request is delivered: the route check passes and get("n") is issued
DoStart(r) ==
  /\ pc[r] = "doQueued"
  /\ CounterRoute("POST", "/next")
  /\ InputGateOpen
  /\ pc' = [pc EXCEPT ![r] = "doGet"]
  /\ UNCHANGED <<env, request, locals, response, claimNumber, counterVars, downstreamVars>>

\* Variant: the increment is applied twice.
IncrementTwice(v) == v + 2

\* `n += 1`
Increment(v) == v + 1

\* get() settles: n = stored || seed; n += 1; put("n", n) is issued
DoGet(r) ==
  /\ pc[r] = "doGet"
  /\ got' = [got EXCEPT ![r] = stored]
  /\ n' = [n EXCEPT ![r] = Increment(OrSeed(stored))]
  /\ pc' = [pc EXCEPT ![r] = "doPut"]
  /\ UNCHANGED <<env, request, locals, response, claimNumber, stored, issued,
                 seenAtCall, restarts, allocCalls, putFailures, afterFail, downstreamVars>>

\* Variant: the new value is kept in memory only and never put.
DoPutNotPersisted(r) ==
  /\ pc[r] = "doPut"
  /\ pc' = [pc EXCEPT ![r] = "doWritten"]
  /\ UNCHANGED <<env, request, locals, response, claimNumber, stored, n, got, issued,
                 seenAtCall, restarts, allocCalls, putFailures, afterFail, downstreamVars>>

\* put() is applied to storage
DoPut(r) ==
  /\ pc[r] = "doPut"
  /\ stored' = n[r]
  /\ pc' = [pc EXCEPT ![r] = "doWritten"]
  /\ UNCHANGED <<env, request, locals, response, claimNumber, n, got, issued,
                 seenAtCall, restarts, allocCalls, putFailures, afterFail, downstreamVars>>

\* Variant: the value is advanced although put() rejects.
DoPutFailAdvancing(r) ==
  /\ pc[r] = "doPut"
  /\ putFailures < MaxPutFailures
  /\ putFailures' = putFailures + 1
  /\ stored' = n[r]
  /\ afterFail' = [failed |-> n[r], next |-> 0, lost |-> FALSE]
  /\ pc' = [pc EXCEPT ![r] = "doFailed"]
  /\ UNCHANGED <<env, request, locals, response, claimNumber, n, got, issued,
                 seenAtCall, restarts, allocCalls, downstreamVars>>

\* put() rejects: the await throws out of ClaimCounter.fetch()
DoPutFail(r) ==
  /\ pc[r] = "doPut"
  /\ putFailures < MaxPutFailures
  /\ putFailures' = putFailures + 1
  /\ afterFail' = [failed |-> n[r], next |-> 0, lost |-> FALSE]
  /\ pc' = [pc EXCEPT ![r] = "doFailed"]
  /\ UNCHANGED <<env, request, locals, response, claimNumber, stored, n, got, issued,
                 seenAtCall, restarts, allocCalls, downstreamVars>>

\* return new Response(JSON.stringify({ n }))
DoReturn(r) ==
  /\ pc[r] = "doWritten"
  /\ issued' = Append(issued, n[r])
  /\ afterFail' = IF afterFail.failed # 0 /\ afterFail.next = 0
                    THEN [afterFail EXCEPT !.next = n[r]]
                    ELSE afterFail
  /\ pc' = [pc EXCEPT ![r] = "doReturned"]
  /\ UNCHANGED <<env, request, locals, response, claimNumber, stored, n, got,
                 seenAtCall, restarts, allocCalls, putFailures, downstreamVars>>

\* The process holding the object restarts: every invocation that has
\* started and not returned is lost with its locals; storage is kept.
DoRestart ==
  /\ restarts < MaxRestarts
  /\ \E r \in DOMAIN pc : pc[r] \in {"doGet", "doPut", "doWritten"}
  /\ restarts' = restarts + 1
  /\ afterFail' = IF afterFail.failed # 0 /\ afterFail.next = 0
                     /\ \E r \in DOMAIN pc : pc[r] = "doWritten"
                    THEN [afterFail EXCEPT !.lost = TRUE]
                    ELSE afterFail
  /\ pc' = [r \in DOMAIN pc |->
              IF pc[r] \in {"doGet", "doPut", "doWritten"} THEN "doFailed" ELSE pc[r]]
  /\ UNCHANGED <<env, request, locals, response, claimNumber, stored, n, got, issued,
                 seenAtCall, putFailures, allocCalls, downstreamVars>>

\* ------------------------------------------- fetch(): steps 5 to 9 (Worker)
\* Variant: the gate looks at the settings only, not at EMAIL_ENABLED.
emailConfiguredIgnoringFlag(e) ==
  e.EMAIL_API_ENDPOINT /\ e.EMAIL_API_KEY /\ e.FROM_EMAIL

\* step 8: the confirmation email is sent only when this holds
emailConfigured(e) ==
  e.EMAIL_ENABLED = "true" /\ e.EMAIL_API_ENDPOINT /\ e.EMAIL_API_KEY /\ e.FROM_EMAIL

\* sendEmail() throws before its fetch() when the key or the sender is missing
SendEmailRefuses(e) == ~e.EMAIL_API_KEY \/ ~e.FROM_EMAIL

\* hsFindContactByEmail(): `results[0]` of a search by lower-cased email
Matches(email) == {i \in 1..Len(crm) : crm[i] = toLowerCase(email)}

\* one more call of kind `what` by request r, on top of the counts c
BumpIn(c, r, what) == [c EXCEPT ![r][what] = @ + 1]

Bump(r, what) == BumpIn(calls, r, what)

\* Step 7 as far as the ticket request: the ticket props carry claim number
\* cn, and hsCreateTicket() issues its POST; c counts the calls before it.
IssueTicket(r, cn, cid, c) ==
  /\ contactId' = [contactId EXCEPT ![r] = cid]
  /\ ticketClaim' = [ticketClaim EXCEPT ![r] = cn]
  /\ calls' = BumpIn(c, r, "ticket")
  /\ pc' = [pc EXCEPT ![r] = "ticket"]

\* Step 9: the 200 response
Respond(r, tid, es) ==
  /\ ticketId' = [ticketId EXCEPT ![r] = tid]
  /\ emailStatus' = [emailStatus EXCEPT ![r] = es]
  /\ response' = [response EXCEPT ![r] = jsonOk(claimNumber[r], contactId[r], tid, es)]
  /\ pc' = [pc EXCEPT ![r] = "responded"]

\* A HubSpot or Brevo call fails (non-2xx answer or rejected fetch).
CallFails ==
  /\ callFailures < MaxCallFailures
  /\ callFailures' = callFailures + 1

\* The catch of step 6 ("contact"), 7 ("ticket") or 8 ("email") has run.
Caught(r, steps) == failedSteps' = [failedSteps EXCEPT ![r] = @ \cup steps]

\* Variant: the ticket request is issued together with the contact search
\* instead of after the upsert has settled.
AllocReturnParallel(r) ==
  /\ pc[r] = "doReturned"
  /\ env.HUBSPOT_TOKEN
  /\ claimNumber' = [claimNumber EXCEPT ![r] = n[r]]
  /\ seenAtCall' = [seenAtCall EXCEPT ![r] = 0]
  /\ ticketClaim' = [ticketClaim EXCEPT ![r] = n[r]]
  /\ calls' = BumpIn(BumpIn(Bump(r, "upsert"), r, "find"), r, "ticket")
  /\ pc' = [pc EXCEPT ![r] = "hsFind"]
  /\ UNCHANGED <<env, request, locals, response, stored, n, issued, restarts, allocCalls,
                 putFailures, got, afterFail, contactId, ticketId, emailStatus,
                 emailClaim, crm, callFailures, failedSteps>>

\* The await of doStub.fetch().then(r => r.json()) settles with { n } and the
\* contact upsert starts: hsUpsertContact() is called and issues the search.
AllocReturn(r) ==
  /\ pc[r] = "doReturned"
  /\ env.HUBSPOT_TOKEN
  /\ claimNumber' = [claimNumber EXCEPT ![r] = n[r]]
  /\ seenAtCall' = [seenAtCall EXCEPT ![r] = 0]
  /\ calls' = BumpIn(Bump(r, "upsert"), r, "find")
  /\ pc' = [pc EXCEPT ![r] = "hsFind"]
  /\ UNCHANGED <<env, request, locals, response, stored, n, issued, restarts, allocCalls,
                 putFailures, got, afterFail, contactId, ticketId, emailStatus,
                 ticketClaim, emailClaim, crm, callFailures, failedSteps>>

\* The same, when hsUpsertContact() throws "HUBSPOT_TOKEN missing": the
\* catch of step 6 leaves contactId null and step 7 issues the ticket.
AllocReturnNoToken(r) ==
  /\ pc[r] = "doReturned"
  /\ ~env.HUBSPOT_TOKEN
  /\ claimNumber' = [claimNumber EXCEPT ![r] = n[r]]
  /\ seenAtCall' = [seenAtCall EXCEPT ![r] = 0]
  /\ IssueTicket(r, n[r], Null, Bump(r, "upsert"))
  /\ Caught(r, {"contact"})
  /\ UNCHANGED <<env, request, locals, response, stored, n, issued, restarts, allocCalls,
                 putFailures, got, afterFail, ticketId, emailStatus, emailClaim, crm,
                 callFailures>>

\* Variant: the rejection is swallowed and the handler goes on to step 6.
AllocThrowSwallowed(r) ==
  /\ pc[r] = "doFailed"
  /\ seenAtCall' = [seenAtCall EXCEPT ![r] = 0]
  /\ calls' = BumpIn(Bump(r, "upsert"), r, "find")
  /\ pc' = [pc EXCEPT ![r] = "hsFind"]
  /\ UNCHANGED <<env, request, locals, response, claimNumber, stored, n, issued,
                 restarts, allocCalls, putFailures, got, afterFail, contactId, ticketId,
                 emailStatus, ticketClaim, emailClaim, crm, callFailures, failedSteps>>

\* Variant: after a rejection the handler calls POST /next again.
AllocThrowRetries(r) ==
  /\ pc[r] = "doFailed"
  /\ pc' = [pc EXCEPT ![r] = "doQueued"]
  /\ seenAtCall' = [seenAtCall EXCEPT ![r] = Len(issued)]
  /\ allocCalls' = [allocCalls EXCEPT ![r] = @ + 1]
  /\ UNCHANGED <<env, request, locals, response, claimNumber, stored, n, issued,
                 restarts, putFailures, got, afterFail, downstreamVars>>

\* doStub.fetch() rejects: nothing catches it, the handler throws.
AllocThrow(r) ==
  /\ pc[r] = "doFailed"
  /\ pc' = [pc EXCEPT ![r] = "threw"]
  /\ seenAtCall' = [seenAtCall EXCEPT ![r] = 0]
  /\ UNCHANGED <<env, request, locals, response, claimNumber, stored, n, issued,
                 restarts, allocCalls, putFailures, got, afterFail, downstreamVars>>

\* Variant: the contact is created although the search found one.
FindHitCreatesAnyway(r) ==
  /\ pc[r] = "hsFind"
  /\ Matches(Submission(locals[r]).email) # {}
  /\ calls' = Bump(r, "create")
  /\ pc' = [pc EXCEPT ![r] = "hsCreate"]
  /\ UNCHANGED <<env, request, locals, response, claimNumber, counterVars, contactId,
                 ticketId, emailStatus, ticketClaim, emailClaim, crm, callFailures,
                 failedSteps>>

\* The search answers with a contact: hsUpsertContact() returns its id.
FindHit(r) ==
  /\ pc[r] = "hsFind"
  /\ \E id \in Matches(Submission(locals[r]).email) :
       IssueTicket(r, claimNumber[r], id, calls)
  /\ UNCHANGED <<env, request, locals, response, claimNumber, counterVars, ticketId,
                 emailStatus, emailClaim, crm, callFailures, failedSteps>>

\* The search answers with no result: hsCreateContact() issues its POST.
FindMiss(r) ==
  /\ pc[r] = "hsFind"
  /\ Matches(Submission(locals[r]).email) = {}
  /\ calls' = Bump(r, "create")
  /\ pc' = [pc EXCEPT ![r] = "hsCreate"]
  /\ UNCHANGED <<env, request, locals, response, claimNumber, counterVars, contactId,
                 ticketId, emailStatus, ticketClaim, emailClaim, crm, callFailures,
                 failedSteps>>

\* Variant: step 6 has no try/catch, a failed search ends the handler.
FindFailUncaught(r) ==
  /\ pc[r] = "hsFind"
  /\ CallFails
  /\ pc' = [pc EXCEPT ![r] = "threw"]
  /\ UNCHANGED <<env, request, locals, response, claimNumber, counterVars, contactId,
                 ticketId, emailStatus, calls, ticketClaim, emailClaim, crm, failedSteps>>

\* The search fails: hsRequest() throws, the catch of step 6 takes it.
FindFail(r) ==
  /\ pc[r] = "hsFind"
  /\ CallFails
  /\ IssueTicket(r, claimNumber[r], Null, calls)
  /\ Caught(r, {"contact"})
  /\ UNCHANGED <<env, request, locals, response, claimNumber, counterVars, ticketId,
                 emailStatus, emailClaim, crm>>

\* The contact is created and its id returned.
CreateOk(r) ==
  /\ pc[r] = "hsCreate"
  /\ crm' = Append(crm, toLowerCase(Submission(locals[r]).email))
  /\ IssueTicket(r, claimNumber[r], Len(crm) + 1, calls)
  /\ UNCHANGED <<env, request, locals, response, claimNumber, counterVars, ticketId,
                 emailStatus, emailClaim, callFailures, failedSteps>>

\* The create fails: hsRequest() throws, the catch of step 6 takes it.
CreateFail(r) ==
  /\ pc[r] = "hsCreate"
  /\ CallFails
  /\ IssueTicket(r, claimNumber[r], Null, calls)
  /\ Caught(r, {"contact"})
  /\ UNCHANGED <<env, request, locals, response, claimNumber, counterVars, ticketId,
                 emailStatus, emailClaim, crm>>

\* Ticket ids are those of the request that created them.
TicketIdOf(r) == r

\* Variant: a failed ticket request gives the claim number back to the counter.
AfterTicketGivesBack(r, tid, caught) ==
  /\ pc[r] = "ticket"
  /\ stored' = (IF caught # {} THEN stored - 1 ELSE stored)
  /\ IF emailConfigured(env) /\ ~SendEmailRefuses(env)
       THEN /\ ticketId' = [ticketId EXCEPT ![r] = tid]
            /\ emailClaim' = [emailClaim EXCEPT ![r] = claimNumber[r]]
            /\ calls' = Bump(r, "email")
            /\ pc' = [pc EXCEPT ![r] = "email"]
            /\ Caught(r, caught)
            /\ UNCHANGED <<emailStatus, response>>
       ELSE /\ Respond(r, tid, IF emailConfigured(env) THEN "failed" ELSE "skipped")
            /\ Caught(r, caught \cup (IF emailConfigured(env) THEN {"email"} ELSE {}))
            /\ UNCHANGED <<emailClaim, calls>>
  /\ UNCHANGED <<env, request, locals, claimNumber, n, issued, seenAtCall, restarts,
                 putFailures, got, afterFail, allocCalls, contactId, ticketClaim, crm>>

\* hsCreateTicket() has settled with tid (null after the catch of step 7,
\* `caught` then holding "ticket"); step 8 decides on the email and, if none
\* is to be sent, step 9 responds.
AfterTicket(r, tid, caught) ==
  /\ pc[r] = "ticket"
  /\ IF emailConfigured(env) /\ ~SendEmailRefuses(env)
       THEN /\ ticketId' = [ticketId EXCEPT ![r] = tid]
            /\ emailClaim' = [emailClaim EXCEPT ![r] = claimNumber[r]]
            /\ calls' = Bump(r, "email")
            /\ pc' = [pc EXCEPT ![r] = "email"]
            /\ Caught(r, caught)
            /\ UNCHANGED <<emailStatus, response>>
       ELSE /\ Respond(r, tid, IF emailConfigured(env) THEN "failed" ELSE "skipped")
            /\ Caught(r, caught \cup (IF emailConfigured(env) THEN {"email"} ELSE {}))
            /\ UNCHANGED <<emailClaim, calls>>
  /\ UNCHANGED <<env, request, locals, claimNumber, counterVars, contactId, ticketClaim, crm>>

TicketOk(r) ==
  /\ AfterTicket(r, TicketIdOf(r), {})
  /\ UNCHANGED callFailures

\* Variant: a failed ticket request is issued again.
TicketFailRetried(r) ==
  /\ pc[r] = "ticket"
  /\ CallFails
  /\ calls' = Bump(r, "ticket")
  /\ Caught(r, {"ticket"})
  /\ UNCHANGED <<env, request, locals, response, pc, claimNumber, counterVars, contactId,
                 ticketId, emailStatus, ticketClaim, emailClaim, crm>>

TicketFail(r) ==
  /\ CallFails
  /\ AfterTicket(r, Null, {"ticket"})

\* Brevo answers 2xx
EmailOk(r) ==
  /\ pc[r] = "email"
  /\ Respond(r, ticketId[r], "sent")
  /\ UNCHANGED <<env, request, locals, claimNumber, counterVars, contactId, calls,
                 ticketClaim, emailClaim, crm, callFailures, failedSteps>>

\* Brevo answers non-2xx or the fetch rejects: the catch of step 8
EmailFail(r) ==
  /\ pc[r] = "email"
  /\ CallFails
  /\ Respond(r, ticketId[r], "failed")
  /\ Caught(r, {"email"})
  /\ UNCHANGED <<env, request, locals, claimNumber, counterVars, contactId, calls,
                 ticketClaim, emailClaim, crm>>

\* ------------------------------------------------------------ specification
Next ==
  \/ \E r \in Reqs, q \in RequestSamples : Preflight(r, q)
  \/ \E r \in Reqs, q \in RequestSamples : NotPost(r, q)
  \/ \E r \in Reqs, q \in RequestSamples : BadBody(r, q)
  \/ \E r \in Reqs, q \in RequestSamples : Invalid(r, q)
  \/ \E r \in Reqs, q \in RequestSamples : Accept(r, q)
  \/ \E r \in Reqs : DoStart(r)
  \/ \E r \in Reqs : DoGet(r)
  \/ \E r \in Reqs : DoPut(r)
  \/ \E r \in Reqs : DoPutFail(r)
  \/ \E r \in Reqs : DoReturn(r)
  \/ DoRestart
  \/ \E r \in Reqs : AllocReturn(r)
  \/ \E r \in Reqs : AllocReturnNoToken(r)
  \/ \E r \in Reqs : AllocThrow(r)
  \/ \E r \in Reqs : FindHit(r)
  \/ \E r \in Reqs : FindMiss(r)
  \/ \E r \in Reqs : FindFail(r)
  \/ \E r \in Reqs : CreateOk(r)
  \/ \E r \in Reqs : CreateFail(r)
  \/ \E r \in Reqs : TicketOk(r)
  \/ \E r \in Reqs : TicketFail(r)
  \/ \E r \in Reqs : EmailOk(r)
  \/ \E r \in Reqs : EmailFail(r)

Spec == Init /\ [][Next]_vars

\* ClaimCounter's own steps are not held back for ever: the runtime delivers a
\* queued POST /next once the input gate is open, and storage.get() and
\* storage.put(), which work on the object's local storage, settle.
CounterFair ==
  \A r \in Reqs :
    /\ WF_vars(DoStart(r))
    /\ WF_vars(DoGet(r))
    /\ WF_vars(DoPut(r) \/ DoPutFail(r))
    /\ WF_vars(DoReturn(r))

\* Every call request r awaits settles, with a result or an error: the call
\* to ClaimCounter's stub, the HubSpot search, create and ticket requests,
\* and the Brevo request.
OwnCallsReturn(r) ==
  /\ WF_vars(AllocReturn(r) \/ AllocReturnNoToken(r) \/ AllocThrow(r))
  /\ WF_vars(FindHit(r) \/ FindMiss(r) \/ FindFail(r))
  /\ WF_vars(CreateOk(r) \/ CreateFail(r))
  /\ WF_vars(TicketOk(r) \/ TicketFail(r))
  /\ WF_vars(EmailOk(r) \/ EmailFail(r))

\* Validated submissions only, in a deployment with every setting present.
InitFair == InitOver(Reqs, {Env(TRUE, "true", TRUE, TRUE, TRUE)})

NextFair ==
  \/ \E r \in Reqs, q \in RequestSamples : Accept(r, q)
  \/ \E r \in Reqs : DoStart(r)
  \/ \E r \in Reqs : DoGet(r)
  \/ \E r \in Reqs : DoPut(r)
  \/ \E r \in Reqs : DoPutFail(r)
  \/ \E r \in Reqs : DoReturn(r)
  \/ DoRestart
  \/ \E r \in Reqs : AllocReturn(r)
  \/ \E r \in Reqs : AllocThrow(r)
  \/ \E r \in Reqs : FindHit(r)
  \/ \E r \in Reqs : FindMiss(r)
  \/ \E r \in Reqs : FindFail(r)
  \/ \E r \in Reqs : CreateOk(r)
  \/ \E r \in Reqs : CreateFail(r)
  \/ \E r \in Reqs : TicketOk(r)
  \/ \E r \in Reqs : TicketFail(r)
  \/ \E r \in Reqs : EmailOk(r)
  \/ \E r \in Reqs : EmailFail(r)

\* The Worker and ClaimCounter under fair scheduling of ClaimCounter; HubSpot
\* and Brevo may leave any request waiting for ever.
SpecFair == InitFair /\ [][NextFair]_vars /\ CounterFair

\* ClaimCounter alone: NumCallers valid submissions call POST /next and the
\* object serves them; what the callers do with the answer is left out.
InitCounter == InitOver(Callers, {Env(TRUE, "true", TRUE, TRUE, TRUE)})

NextCounter ==
  \/ \E r \in Callers, q \in RequestSamples : Accept(r, q)
  \/ \E r \in Callers : DoStart(r)
  \/ \E r \in Callers : DoGet(r)
  \/ \E r \in Callers : DoPut(r)
  \/ \E r \in Callers : DoPutFail(r)
  \/ \E r \in Callers : DoReturn(r)
  \/ DoRestart

SpecCounter == InitCounter /\ [][NextCounter]_vars

TypeOK ==
  /\ stored \in {Undefined} \cup (Seed + 1)..(Seed + NumReqs + NumCallers)
  /\ \A r \in DOMAIN pc : pc[r] \in {"new", "responded", "threw", "doQueued", "doGet", "doPut",
                                "doWritten", "doReturned", "doFailed", "hsFind",
                                "hsCreate", "ticket", "email"}


\* ------------------------------------------------------------- properties
Range(seq) == {seq[i] : i \in 1..Len(seq)}

\* the allocate() of request r has returned a value to its caller
HasValue(r) == pc[r] = "doReturned" \/ claimNumber[r] # Null

\* the requests that do not pass routing, parsing and validation
RejectedSamples ==
  {q \in RequestSamples :
     \/ q.method # "POST"
     \/ ParseThrows(q)
     \/ ValidationErrors(Parsed(q).vin, Parsed(q).email) # <<>>}

Rejected(q) == q \in RejectedSamples

Arrived(r) == request[r] # NoRequest

\* C1: the values returned to N concurrent allocate() calls are N distinct
\* integers, and no two of these calls read the same prior counter value.
C1_ConcurrentCallsDistinct ==
  /\ \A r1, r2 \in DOMAIN pc :
       (r1 # r2 /\ HasValue(r1) /\ HasValue(r2)) => (n[r1] # n[r2] /\ got[r1] # got[r2])
  /\ Cardinality(Range(issued)) = Cardinality({r \in DOMAIN pc : HasValue(r)})

\* every caller had called before any value was returned, and all have a value
C1_Witness == \A r \in DOMAIN pc : pc[r] = "doReturned" /\ seenAtCall[r] = 0

\* C2: a call invoked after another call completed returns a strictly greater
\* value than that call did, whatever other calls are in flight.
C2_LaterCallGreater ==
  \A r \in DOMAIN pc :
    pc[r] = "doReturned" => \A i \in 1..seenAtCall[r] : issued[i] < n[r]

\* r was invoked after one value had been returned, r2 before, and r2 is
\* still waiting when r returns
C2_Witness ==
  \E r, r2 \in DOMAIN pc :
    /\ pc[r] = "doReturned" /\ seenAtCall[r] = 1
    /\ pc[r2] = "doQueued" /\ seenAtCall[r2] = 0

\* C3: across calls and restarts of the object, no value returned to a caller
\* is returned again.
C3_NoValueReissued ==
  \A i, j \in 1..Len(issued) : i # j => issued[i] # issued[j]

\* a restart dropped an invocation that had read the empty storage, and two
\* values were returned around it
C3_Witness ==
  /\ restarts = 1 /\ putFailures = 0
  /\ Len(issued) = 2
  /\ \E r \in DOMAIN pc : pc[r] = "doFailed" /\ got[r] = Undefined /\ n[r] = Seed + 1

\* a rejected put() gives its caller no value, and nothing is returned that
\* storage does not hold
WriteFailureGivesNoValue ==
  /\ \A r \in DOMAIN pc : pc[r] \in {"doFailed", "threw"} =>
       (~HasValue(r) /\ response[r] = NoResponse)
  /\ \A i \in 1..Len(issued) : stored # Undefined /\ issued[i] <= stored

\* C4 as stated: after a rejected put() the call returns nothing, and the next
\* value returned is the one the failed call would have returned; nothing is
\* returned that was not stored before.
C4_NextReturnsFailedValue ==
  /\ WriteFailureGivesNoValue
  /\ afterFail.next # 0 => afterFail.next = afterFail.failed

\* C4 amended: the same, unless a restart between the failure and the next
\* return dropped an invocation that had already written its value.
C4_NextReturnsFailedValueUnlessLost ==
  /\ WriteFailureGivesNoValue
  /\ (afterFail.next # 0 /\ ~afterFail.lost) => afterFail.next = afterFail.failed

\* a put() was rejected and a later call has returned the same number
C4_Witness ==
  /\ afterFail.failed # 0 /\ afterFail.next = afterFail.failed /\ ~afterFail.lost
  /\ \E r \in DOMAIN pc : pc[r] = "doFailed" /\ n[r] = afterFail.failed

\* C5: with no restart and no rejected put(), k returned values are exactly
\* seed+1 .. seed+k, and storage advances by one per written value.
C5_GapFree ==
  (restarts = 0 /\ putFailures = 0) =>
    /\ Range(issued) = (Seed + 1)..(Seed + Len(issued))
    /\ OrSeed(stored) =
         Seed + Len(issued) + Cardinality({r \in DOMAIN pc : pc[r] = "doWritten"})

C5_Witness == restarts = 0 /\ putFailures = 0 /\ Len(issued) = NumCallers

\* C6: a call that finds the storage empty returns seed+1 = 100001 and leaves
\* 100001 stored.
C6_FirstValue ==
  \A r \in DOMAIN pc :
    (got[r] = Undefined /\ pc[r] \in {"doWritten", "doReturned"}) =>
      /\ n[r] = Seed + 1
      /\ n[r] = 100001
      /\ pc[r] = "doWritten" => stored = 100001
      /\ stored >= 100001

C6_Witness ==
  \E r \in DOMAIN pc : pc[r] = "doReturned" /\ got[r] = Undefined /\ issued = <<100001>>

\* C7: a request whose allocation failed or has not completed has produced no
\* response, holds no claim number and has issued no HubSpot or Brevo call;
\* every ok:true response carries the value its own allocate() returned.
C7_AllocationFailureIsFatal ==
  /\ \A r \in DOMAIN pc :
       pc[r] \in {"doQueued", "doGet", "doPut", "doWritten", "doFailed", "threw"} =>
         (response[r] = NoResponse /\ claimNumber[r] = Null /\ calls[r] = NoCalls)
  /\ \A r \in DOMAIN pc :
       response[r].ok =>
         (response[r].claimNumber = n[r] /\ response[r].claimNumber \in Range(issued))

\* one request ended on a failed allocation while another got its 200
C7_Witness ==
  \E r, r2 \in DOMAIN pc : pc[r] = "threw" /\ response[r2].ok

\* C8: a POST that passed routing and parsing and ended in failure got a JSON
\* body built by the handler.
C8_FailuresAreStructured ==
  \A r \in DOMAIN pc :
    ( /\ request[r].method = "POST"
      /\ ~ParseThrows(request[r])
      /\ pc[r] = "threw" \/ (pc[r] = "responded" /\ ~response[r].ok) )
    => (response[r].kind = "json" /\ response[r].status >= 400)

\* C9: a request that is not a POST, or whose body cannot be read, or whose
\* VIN or email fails validation, never calls ClaimCounter, HubSpot or Brevo,
\* and whatever is stored was written for a valid submission.
C9_OnlyValidReachSequencer ==
  /\ \A r \in DOMAIN pc :
       (Arrived(r) /\ Rejected(request[r])) =>
         /\ pc[r] = "responded" /\ ~response[r].ok
         /\ n[r] = 0 /\ got[r] = 0 /\ claimNumber[r] = Null
         /\ calls[r] = NoCalls
  /\ stored # Undefined =>
       \E r \in DOMAIN pc : Arrived(r) /\ ~Rejected(request[r]) /\ n[r] = stored
  /\ (\A r \in DOMAIN pc : Arrived(r) => Rejected(request[r])) =>
       (stored = Undefined /\ issued = <<>> /\ crm = <<OtherContact>>)

\* a preflight and a validation failure have both been answered
C9_Witness ==
  \E r, r2 \in DOMAIN pc :
    /\ request[r].method = "OPTIONS" /\ pc[r] = "responded"
    /\ request[r2].method = "POST" /\ response[r2].errors = <<VinMessage>>

\* C10: once a request holds a claim number it never throws, and its response
\* is a 200 with that number, contactId null if the upsert failed, ticketId
\* null if the ticket creation failed, emailStatus "failed" if the send failed.
C10_DownstreamIsolated ==
  \A r \in DOMAIN pc :
    claimNumber[r] # Null =>
      /\ pc[r] \in {"hsFind", "hsCreate", "ticket", "email", "responded"}
      /\ pc[r] = "responded" =>
           /\ response[r].ok /\ response[r].status = 200 /\ response[r].kind = "json"
           /\ response[r].claimNumber = claimNumber[r]
           /\ claimNumber[r] = n[r]
           /\ "contact" \in failedSteps[r] => response[r].contactId = Null
           /\ "ticket" \in failedSteps[r] => response[r].ticketId = Null
           /\ "email" \in failedSteps[r] => response[r].emailStatus = "failed"

\* all three downstream steps of one request failed and it was answered
C10_Witness ==
  \E r \in DOMAIN pc :
    /\ pc[r] = "responded"
    /\ failedSteps[r] = {"contact", "ticket", "email"}
    /\ calls[r].find = 1 /\ calls[r].ticket = 1 /\ calls[r].email = 1

\* the handler of r has returned its 200
Answered(r) == pc[r] = "responded" /\ response[r].ok

\* C11: a request that holds a claim number has called the contact upsert
\* exactly once; once it is past the upsert it has issued exactly one ticket
\* request; once answered it has called sendEmail() exactly once if the email
\* settings allow it and never otherwise. No call is issued twice, whichever
\* of the other steps failed.
C11_EachStepAttemptedOnce ==
  \A r \in DOMAIN pc :
    /\ \A what \in DOMAIN NoCalls : calls[r][what] <= 1
    /\ claimNumber[r] # Null =>
         /\ calls[r].upsert = 1
         /\ calls[r].find = (IF env.HUBSPOT_TOKEN THEN 1 ELSE 0)
    /\ (pc[r] \in {"ticket", "email"} \/ Answered(r)) => calls[r].ticket = 1
    /\ pc[r] = "email" => calls[r].email = 1
    /\ Answered(r) => calls[r].email = (IF emailConfigured(env) THEN 1 ELSE 0)

\* the upsert of an answered request failed, its ticket request failed, and
\* the ticket request and the email were still issued, once each
C11_Witness ==
  \E r \in DOMAIN pc :
    /\ Answered(r)
    /\ {"contact", "ticket"} \subseteq failedSteps[r]
    /\ calls[r].upsert = 1 /\ calls[r].ticket = 1 /\ calls[r].email = 1

\* C12: no HubSpot or Brevo call is issued before the request's own
\* POST /next has returned its value; the ticket request is issued only after
\* the upsert has settled and carries that value; the email only after the
\* ticket request has settled; the 200 is returned only when every call the
\* request issued has settled.
C12_FixedStepOrder ==
  \A r \in DOMAIN pc :
    /\ calls[r] # NoCalls =>
         /\ claimNumber[r] # Null /\ claimNumber[r] \in Range(issued)
         /\ allocCalls[r] = 1
         /\ pc[r] \in {"hsFind", "hsCreate", "ticket", "email", "responded"}
    /\ calls[r].ticket > 0 =>
         /\ calls[r].upsert = 1
         /\ pc[r] \in {"ticket", "email", "responded"}
         /\ ticketClaim[r] = claimNumber[r]
    /\ calls[r].email > 0 =>
         /\ calls[r].ticket = 1
         /\ pc[r] \in {"email", "responded"}
    /\ Answered(r) =>
         /\ calls[r].upsert = 1 /\ calls[r].ticket = 1
         /\ emailStatus[r] \in {"sent", "failed", "skipped"}
         /\ response[r].emailStatus = emailStatus[r]
         /\ response[r].ticketId = ticketId[r]
         /\ response[r].contactId = contactId[r]

\* a request went through search, create, ticket and email, and is waiting
\* for Brevo while another request has not got its claim number yet
C12_Witness ==
  \E r, r2 \in DOMAIN pc :
    /\ pc[r] = "email"
    /\ calls[r] = [upsert |-> 1, find |-> 1, create |-> 1, ticket |-> 1, email |-> 1]
    /\ pc[r2] \in {"doQueued", "doGet", "doPut", "doWritten"}

C14_EndpointNotRequired ==
  \A r \in DOMAIN pc :
    (Answered(r) /\ env.EMAIL_ENABLED = "true" /\ env.EMAIL_API_KEY /\ env.FROM_EMAIL) =>
      (response[r].emailStatus \in {"sent", "failed"} /\ calls[r].email = 1)

\* C15: among the requests submitted for one email address at most one has
\* issued the POST that creates the contact, and HubSpot holds at most one
\* contact for an address.
C15_AtMostOneCreate ==
  /\ \A r1, r2 \in DOMAIN pc :
       ( /\ r1 # r2
         /\ calls[r1].create > 0 /\ calls[r2].create > 0 )
       => toLowerCase(locals[r1].email) # toLowerCase(locals[r2].email)
  /\ \A i, j \in 1..Len(crm) : i # j => crm[i] # crm[j]

\* C16: when HubSpot holds a contact for the address of a request whose search
\* returns, hsUpsertContact() returns the id of such a contact and the request
\* issues no create; two requests for one address that HubSpot holds a
\* single contact for, both resolve to its id.
C16_ExistingContactReused ==
  /\ [](\A r1, r2 \in DOMAIN pc :
         ( /\ contactId[r1] # Null /\ contactId[r2] # Null
           /\ toLowerCase(locals[r1].email) = toLowerCase(locals[r2].email)
           /\ Cardinality({i \in 1..Len(crm) : crm[i] = toLowerCase(locals[r1].email)}) = 1 )
         => contactId[r1] = contactId[r2])
  /\ [][\A r \in DOMAIN pc :
         ( /\ pc[r] = "hsFind" /\ pc'[r] # "hsFind"
           /\ \E i \in 1..Len(crm) : crm[i] = toLowerCase(locals[r].email)
           /\ "contact" \notin failedSteps'[r] )
         => /\ pc'[r] = "ticket"
            /\ calls'[r].create = 0
            /\ contactId'[r] \in 1..Len(crm)
            /\ crm[contactId'[r]] = toLowerCase(locals[r].email)]_vars

\* one request created the contact, a later one found it: both hold its id
C16_Witness ==
  \E r1, r2 \in DOMAIN pc :
    /\ calls[r1].create = 1
    /\ calls[r2].find = 1 /\ calls[r2].create = 0
    /\ contactId[r1] # Null /\ contactId[r1] = contactId[r2]

\* the requests whose VIN, trimmed and upper-cased, is not 17 characters
\* among 0-9 and A-Z without I, O, Q
VinFails ==
  {q \in RequestSamples :
     LET v == toUpperCase(trim(Fields(q).vin))
     IN ~( /\ Len(v) = VinLength
           /\ \A i \in 1..Len(v) :
                \/ v[i] \in Digits
                \/ v[i] \in Range(UpperLetters) \ {"I", "O", "Q"} )}

\* the requests whose trimmed email does not match the email pattern
EmailFails == {q \in RequestSamples : ~EmailPattern(trim(Fields(q).email))}

\* C17: a POST whose body could be read is answered 400 exactly when its VIN,
\* trimmed and upper-cased, is not 17 characters among 0-9 and A-Z without
\* I, O, Q, or its trimmed email does not match the email pattern; the error
\* list then holds the VIN message exactly when the VIN fails, the email
\* message exactly when the email fails, and nothing else.
C17_EveryFailingFieldReported ==
  \A r \in DOMAIN pc :
    (Arrived(r) /\ request[r].method = "POST" /\ ~ParseThrows(request[r])) =>
      LET vinBad == request[r] \in VinFails
          emailBad == request[r] \in EmailFails
          errs == response[r].errors
      IN /\ (vinBad \/ emailBad) <=> (pc[r] = "responded" /\ response[r].status = 400)
         /\ (vinBad \/ emailBad) <=> errs # <<>>
         /\ VinMessage \in Range(errs) <=> vinBad
         /\ EmailMessage \in Range(errs) <=> emailBad
         /\ Range(errs) \subseteq {VinMessage, EmailMessage}
         /\ errs # <<>> => (~response[r].ok /\ response[r].kind = "json")

\* one request failed on both fields and got both messages, another failed
\* on the VIN alone
C17_Witness ==
  \E r, r2 \in DOMAIN pc :
    /\ response[r].errors = <<VinMessage, EmailMessage>>
    /\ response[r2].errors = <<VinMessage>>

\* C18: a request has sent POST /next once if it is a validated submission
\* and never otherwise, so there are as many such calls as validated
\* submissions; every value ClaimCounter returned is held by one request,
\* and no two requests hold, or answer with, the same claim number.
C18_OneAllocationPerSubmission ==
  /\ \A r \in DOMAIN pc :
       allocCalls[r] = (IF Arrived(r) /\ ~Rejected(request[r]) THEN 1 ELSE 0)
  /\ Len(issued) <= Cardinality({r \in DOMAIN pc : allocCalls[r] > 0})
  /\ \A i \in 1..Len(issued) :
       Cardinality({r \in DOMAIN pc : HasValue(r) /\ n[r] = issued[i]}) = 1
  /\ \A r1, r2 \in DOMAIN pc :
       (r1 # r2 /\ claimNumber[r1] # Null /\ claimNumber[r2] # Null) =>
         claimNumber[r1] # claimNumber[r2]
  /\ \A r1, r2 \in DOMAIN pc :
       (r1 # r2 /\ Answered(r1) /\ Answered(r2)) =>
         response[r1].claimNumber # response[r2].claimNumber

\* every request was a validated submission, called once and got a value,
\* and two of them were answered
C18_Witness ==
  \E r1, r2 \in DOMAIN pc :
    /\ r1 # r2 /\ Answered(r1) /\ Answered(r2)
    /\ allocCalls[r1] = 1 /\ allocCalls[r2] = 1
    /\ Len(issued) = Cardinality(DOMAIN pc)

\* C19: the claim number a request holds is the value its POST /next
\* returned and never changes; its ticket props, its email and its 200 all
\* carry that number; the stored counter never goes below a number that was
\* returned, never decreases, and is written by ClaimCounter's put() only.
C19_ClaimNumberNeverGivenBack ==
  /\ [](\A r \in DOMAIN pc :
         claimNumber[r] # Null =>
           /\ claimNumber[r] = n[r] /\ claimNumber[r] \in Range(issued)
           /\ stored >= claimNumber[r]
           /\ calls[r].ticket > 0 => ticketClaim[r] = claimNumber[r]
           /\ calls[r].email > 0 => emailClaim[r] = claimNumber[r]
           /\ Answered(r) => response[r].claimNumber = claimNumber[r])
  /\ [][ /\ \A r \in DOMAIN pc :
            claimNumber[r] # Null => claimNumber'[r] = claimNumber[r]
         /\ stored' >= stored
         /\ stored' # stored =>
              \E r \in DOMAIN pc :
                pc[r] = "doPut" /\ pc'[r] = "doWritten" /\ stored' = n[r] ]_vars

\* a request whose upsert, ticket and email all failed was answered with its
\* number, the one in its ticket and its email, after the counter moved on
C19_Witness ==
  \E r \in DOMAIN pc :
    /\ Answered(r)
    /\ failedSteps[r] = {"contact", "ticket", "email"}
    /\ response[r].claimNumber = n[r]
    /\ ticketClaim[r] = n[r] /\ emailClaim[r] = n[r]
    /\ stored > n[r]

\* C20: a validated submission whose own awaited calls all settle ends: it
\* returns its 200 or, if its POST /next rejected and it holds no claim
\* number, its handler throws. This holds whatever the other requests do,
\* also when their HubSpot or Brevo calls never settle.
C20_NoRequestBlocksAnother ==
  \A r \in Reqs :
    OwnCallsReturn(r) =>
      ((pc[r] = "doQueued") ~> (Answered(r) \/ (pc[r] = "threw" /\ claimNumber[r] = Null)))

\* a request got its 200 while another one, which had got the smaller claim
\* number before it, is still waiting for HubSpot or Brevo
C20_Witness ==
  \E r, r2 \in DOMAIN pc :
    /\ Answered(r)
    /\ pc[r2] \in {"hsFind", "hsCreate", "ticket", "email"}
    /\ claimNumber[r2] < claimNumber[r]

====
